---------------------------- MODULE Spec2Model ----------------------------
(***************************************************************************)
(* The simulation kernel of ClimateChangeAdaptation_ABM                    *)
(* (AdaptationModel.py, driven as RunModel.py drives it).                  *)
(*                                                                         *)
(* Numbers.  The program computes with Python floats.  The model keeps     *)
(* every real quantity as a fixed-point integer counting units of 1/Scale  *)
(* (Scale = 1000, so 0.007 is 7 and 1.5 is 1500).  Sums, differences,      *)
(* comparisons, max and min are exact; a product or a quotient of two      *)
(* reals is rounded to the unit, in the order in which the Python          *)
(* expression evaluates, as the float operations round at their own        *)
(* precision.  Python ints (tick, unique_id, x, y, num_agents, the         *)
(* community counters) are integers.                                       *)
(*                                                                         *)
(* Random draws (random.random, random.uniform, random.normalvariate,      *)
(* random.sample) are inputs of the actions, taken from small sets.        *)
(***************************************************************************)
EXTENDS Integers, Sequences, FiniteSets, TLC

(***************************************************************************)
(* Bounds of the model                                                     *)
(***************************************************************************)
\* largest population n a model is constructed with
MaxAgents == 2
\* number of AdaptationModel.step() calls a run makes (RunModel.steps)
MaxSteps == 4

(***************************************************************************)
(* Fixed-point reals                                                       *)
(***************************************************************************)
Scale == 10 * 10 * 10

\* max(a, b), min(a, b), abs(a)
Max(a, b) == IF a >= b THEN a ELSE b
Min(a, b) == IF a <= b THEN a ELSE b
Abs(a) == IF a >= 0 THEN a ELSE -a

\* float * float
Mul(a, b) == (a * b) \div Scale
\* float / float
Div(a, b) == (a * Scale) \div b
\* int -> float
Real(n) == n * Scale

(***************************************************************************)
(* Inputs: constructor arguments and random draws                          *)
(***************************************************************************)
\* width, height of the grid
Widths == {2}
Heights == {1}
\* <<slr_acceleration (m/yr^2), init_time>>
Clocks == {<<0, 0>>, <<1, 10>>}
\* <<network_structure, network_parameter>>: a density, or a radius in cells
Networks == {<<"aspatial", 500>>, <<"spatial", 2>>}
\* random.random() / random.uniform(0, 1): values in [0, 1)
EdgeDraws == {0, 999}
AdaptDraws == {0, 70, 500}
DecrementDraws == {50, 500}
DecisionDraws == {0, 70, 500}
\* annual exceedance probability drawn by calculate_storm_surge
AepDraws == {100, 750}
\* random.normalvariate(0, 1) and random.normalvariate(0, 0.1)
CapacityDraws == {100}
PerturbationDraws == {-100, 100}

\* the arguments of one run: AdaptationModel's, and the number of steps
Configs(widths, heights, populations, clocks, networks, steps) ==
    {[width |-> w, height |-> h, n |-> n, slr_acceleration |-> c[1],
      init_time |-> c[2], network_structure |-> net[1],
      network_parameter |-> net[2], steps |-> steps] :
        w \in widths, h \in heights, n \in populations, c \in clocks,
        net \in networks}

\* the runs of Spec.  A run of at most one household is followed for
\* MaxSteps steps; a run of n >= 2 households for MaxSteps \div n steps, with
\* each kind of network; one run asks for more households than cells, and
\* one for a network mode that does not exist
RunConfigs ==
    Configs(Widths, Heights, 0..Min(1, MaxAgents), Clocks,
            {<<"aspatial", 500>>}, MaxSteps)
    \cup UNION {Configs(Widths, Heights, {n}, {<<1, 10>>}, Networks,
                        MaxSteps \div n) : n \in 2..MaxAgents}
    \cup Configs(Widths, Heights, {MaxAgents + 1}, {<<0, 0>>},
                 {<<"aspatial", 500>>}, MaxSteps)
    \cup Configs(Widths, Heights, {1}, {<<0, 10>>}, {<<"ring", 500>>},
                 MaxSteps)

\* Python's None, where an agent or a position is expected
None == 0 - 1


(***************************************************************************)
(* State                                                                   *)
(***************************************************************************)
VARIABLES
    tick,      \* the module-level counter `tick` of AdaptationModel.py
    models,    \* the AdaptationModel instances of the process, by instance
    runs,      \* the control state of the slr_adaptation call driving each
    calls,     \* history: how often step() and advance() ran on each agent
    trace      \* history: the draws and states of the first run (SpecReplay)

vars == <<tick, models, runs, calls, trace>>

ModelIds == {1, 2}

\* the i-th call of AdaptationModel() in the process has not happened yet
NoModel ==
    [phase |-> "none", queue |-> <<>>, num_agents |-> 0, width |-> 0,
     height |-> 0, slr_acceleration |-> 0, network_mode |-> "",
     network_parameter |-> 0, schedule |-> <<>>, grid |-> <<>>,
     sea_level |-> 0, storm_surge |-> 0, community_resistance |-> 0,
     accommodation_incentive |-> 0, retreat_incentive |-> 0, p_adapt |-> 0,
     agent_list |-> <<>>, agents |-> <<>>,
     datacollector |-> [rows |-> 0, last |-> <<>>]]

\* initial rate of mean sea level rise, 0.007 m/yr
init_slr_increase == 7

(***************************************************************************)
(* Lists                                                                   *)
(***************************************************************************)
\* a in list
In(a, list) == \E n \in 1..Len(list) : list[n] = a

\* list.remove(a): the list without the first occurrence of a
Remove(list, a) ==
    LET n == CHOOSE n \in 1..Len(list) :
                 list[n] = a /\ \A l \in 1..(n - 1) : list[l] # a
    IN  SubSeq(list, 1, n - 1) \o SubSeq(list, n + 1, Len(list))

\* the number of entries a of list for which retreated[a] is flag
Count(list, retreated, flag) ==
    Cardinality({n \in 1..Len(list) : retreated[list[n]] = flag})

\* the sum of f[a] over the entries a of list
RECURSIVE Sum(_, _)
Sum(list, f) ==
    IF list = <<>> THEN 0 ELSE f[Head(list)] + Sum(Tail(list), f)

(***************************************************************************)
(* Household                                                               *)
(***************************************************************************)
\* Household.__init__; capacity is the draw of random.normalvariate(0, 1)
Household(unique_id, width, x, y, capacity) ==
    [unique_id |-> unique_id,
     x |-> x,
     y |-> y,
     pos |-> <<>>,
     connections |-> <<>>,
     elevation |-> Div(Real(x), Real(width)) * 10,
     adaptive_capacity |-> capacity,
     resistance |-> 0,
     accommodation |-> 0,
     p_action |-> 0,
     p_resist |-> 600,
     p_accommodate |-> 300,
     p_retreat |-> 100,
     flood_damage |-> 0,
     attachment |-> Scale,
     relative_elevation |-> Div(Real(x), Real(width)) * 10,
     inundation |-> 0,
     retreated |-> FALSE]

\* Household.calculate_adaptive_capacity; draw is random.normalvariate(0, 0.1)
calculate_adaptive_capacity(a, draw) ==
    [a EXCEPT !.adaptive_capacity = @ + draw]

\* variant of calculate_attachment: the retreated connections are dropped
calculate_attachment_pruning(m, a) ==
    LET remaining == SelectSeq(a.connections,
                               LAMBDA c : ~m.agents[c].retreated)
    IN  IF Len(a.connections) > 0
        THEN [a EXCEPT !.attachment =
                           Div(Real(Len(remaining)), Real(Len(a.connections))),
                       !.connections = remaining]
        ELSE [a EXCEPT !.attachment = 0]

\* Household.calculate_attachment
calculate_attachment(m, a) ==
    LET retreated_connections ==
            Count(a.connections, [c \in DOMAIN m.agents |->
                                     m.agents[c].retreated], TRUE)
        remaining_connections ==
            Count(a.connections, [c \in DOMAIN m.agents |->
                                     m.agents[c].retreated], FALSE)
    IN  IF retreated_connections + remaining_connections > 0
        THEN [a EXCEPT !.attachment =
                 Div(Real(remaining_connections),
                     Real(retreated_connections + remaining_connections))]
        ELSE [a EXCEPT !.attachment = 0]

\* Household.apply_inundation
apply_inundation(m, a) ==
    LET relative_elevation == a.elevation - m.sea_level
        resistance_level == Max(a.resistance, Real(m.community_resistance))
    IN  [a EXCEPT !.relative_elevation = relative_elevation,
                  !.inundation = -(relative_elevation + resistance_level
                                   + a.accommodation)]

\* variant of apply_damage: the new damage is added to the remembered one
apply_damage_accumulating(m, a) ==
    LET decayed == Mul(a.flood_damage, 900)
        flood_height == Max(0, m.storm_surge + a.inundation)
    IN  IF m.storm_surge > 0
        THEN [a EXCEPT !.flood_damage =
                 decayed + Mul(flood_height, Scale - Mul(a.accommodation, 50))]
        ELSE [a EXCEPT !.flood_damage = decayed]

\* Household.apply_damage
apply_damage(m, a) ==
    LET decayed == Mul(a.flood_damage, 900)
        flood_height == Max(0, m.storm_surge + a.inundation)
    IN  IF m.storm_surge > 0
        THEN [a EXCEPT !.flood_damage =
                 Mul(flood_height, Scale - Mul(a.accommodation, 50))]
        ELSE [a EXCEPT !.flood_damage = decayed]

\* Household.step: the observe phase of one agent
step(m, a, draw) ==
    LET a1 == calculate_adaptive_capacity(a, draw)
        a2 == calculate_attachment(m, a1)
        a3 == apply_inundation(m, a2)
    IN  apply_damage(m, a3)

\* variant of Escalate: the third action counts as the third metre
EscalateToThree(level) ==
    IF level = 0 THEN Real(1)
    ELSE IF level = Real(1) THEN 1500
    ELSE Real(3)

\* variant of Escalate: the second action completes the two metres
EscalateSkipping(level) ==
    IF level = 0 THEN Real(1)
    ELSE Real(2)

\* the escalation ladder of make_decision: 0 -> 1 -> 1.5 -> 2
Escalate(level) ==
    IF level = 0 THEN Real(1)
    ELSE IF level = Real(1) THEN 1500
    ELSE Real(2)

\* variant of Probability: the interaction term is added
ProbabilityAdding(d, i) ==
    Mul(90, d) + Mul(1800, i) + Mul(Mul(180, d), i) + 100

\* 0.09*d + 1.8*i - 0.18*d*i + 0.1
Probability(d, i) == Mul(90, d) + Mul(1800, i) - Mul(Mul(180, d), i) + 100

\* the first part of make_decision: p_resist, p_accommodate and p_retreat
\* after the three forcing rules, before the draw
Weights(m, a) ==
    LET r1 == IF a.resistance >= Real(2) \/ a.adaptive_capacity <= 0
              THEN 0 ELSE a.p_resist
        c1 == IF /\ a.accommodation < Real(2)
                 /\ a.adaptive_capacity > -100 * (m.accommodation_incentive - 1)
              THEN a.p_accommodate * m.accommodation_incentive ELSE 0
        t1 == IF a.adaptive_capacity > -100 * (m.retreat_incentive - 1)
              THEN IF a.attachment # 0
                   THEN Div(a.p_retreat * m.retreat_incentive, a.attachment)
                   ELSE a.p_retreat * m.retreat_incentive
              ELSE 0
    IN  <<r1, c1, t1>>

\* variant of make_decision: the draw is made against p_action even when the
\* three weights are zero
make_decision_unguarded(m, a, x) ==
    LET d == Min(a.flood_damage, Real(10))
        i == Min(Real(1), Max(a.inundation, 0))
        p_action == Probability(d, i)
        r1 == Weights(m, a)[1]
        c1 == Weights(m, a)[2]
        t1 == Weights(m, a)[3]
        r2 == Mul(Div(r1, r1 + c1 + t1), p_action)
        c2 == Mul(Div(c1, r2 + c1 + t1), p_action)
        t2 == Mul(Div(t1, r2 + c2 + t1), p_action)
        b == [a EXCEPT !.p_action = p_action]
    IN  IF r1 + c1 + t1 # 0
        THEN LET n == [b EXCEPT !.p_resist = r2, !.p_accommodate = c2,
                                !.p_retreat = t2]
             IN  IF x < r2
                 THEN [n EXCEPT !.resistance = Escalate(a.resistance)]
                 ELSE IF x < r2 + c2
                 THEN [n EXCEPT !.accommodation = Escalate(a.accommodation)]
                 ELSE IF x < p_action
                 THEN [n EXCEPT !.retreated =
                          @ \/ \E l \in 1..Len(m.schedule) :
                                   m.agents[m.schedule[l]].unique_id
                                       = a.unique_id]
                 ELSE n
        ELSE [b EXCEPT !.p_resist = r1, !.p_accommodate = c1,
                       !.p_retreat = t1,
                       !.retreated = @ \/ x < p_action]

\* Household.make_decision; x is the draw of random.uniform(0, 1)
make_decision(m, a, x) ==
    LET d == Min(a.flood_damage, Real(10))
        i == Min(Real(1), Max(a.inundation, 0))
        p_action == Probability(d, i)
        r1 == Weights(m, a)[1]
        c1 == Weights(m, a)[2]
        t1 == Weights(m, a)[3]
        \* the three reassignments, each reading the fields as they then are
        r2 == Mul(Div(r1, r1 + c1 + t1), p_action)
        c2 == Mul(Div(c1, r2 + c1 + t1), p_action)
        t2 == Mul(Div(t1, r2 + c2 + t1), p_action)
        b == [a EXCEPT !.p_action = p_action]
    IN  IF r1 + c1 + t1 # 0
        THEN LET n == [b EXCEPT !.p_resist = r2, !.p_accommodate = c2,
                                !.p_retreat = t2]
             IN  IF x < r2
                 THEN [n EXCEPT !.resistance = Escalate(a.resistance)]
                 ELSE IF x < r2 + c2
                 THEN [n EXCEPT !.accommodation = Escalate(a.accommodation)]
                 ELSE IF x < p_action
                 THEN [n EXCEPT !.retreated =
                          @ \/ \E l \in 1..Len(m.schedule) :
                                   m.agents[m.schedule[l]].unique_id
                                       = a.unique_id]
                 ELSE n
        ELSE [b EXCEPT !.p_resist = r1, !.p_accommodate = c1,
                       !.p_retreat = t1]

\* variant of advance: attachment is recomputed at commit time
advance_reading_neighbours(m, a, x) ==
    make_decision(m, calculate_attachment(m, a), x)

\* Household.advance: the commit phase of one agent
advance(m, a, x) == make_decision(m, a, x)

(***************************************************************************)
(* AdaptationModel                                                         *)
(***************************************************************************)
\* the cells of a width x height SingleGrid
Cells(width, height) == (0..(width - 1)) \X (0..(height - 1))

\* the agent-creation loop of AdaptationModel.__init__, from agent i on:
\* divmod, Household(), schedule.add, grid.place_agent, agent_list.append
RECURSIVE CreateAgents(_, _, _, _)
CreateAgents(m, i, locations, capacities) ==
    IF i >= m.num_agents THEN m
    ELSE LET x == locations[i + 1] \div m.height
             y == locations[i + 1] % m.height
             a == [Household(i, m.width, x, y, capacities[i + 1])
                      EXCEPT !.pos = <<x, y>>]
         IN  CreateAgents(
                 [m EXCEPT !.agents = (i :> a) @@ @,
                           !.schedule = Append(@, i),
                           !.grid = [@ EXCEPT ![<<x, y>>] = i],
                           !.agent_list = Append(@, i)],
                 i + 1, locations, capacities)

\* AdaptationModel.__init__ (the assignment of the global tick is in Construct)
AdaptationModel(width, height, n, slr_acceleration, network_structure, network_parameter, locations, capacities) ==
    CreateAgents(
        [phase |-> "idle", queue |-> <<>>, num_agents |-> n, width |-> width,
         height |-> height, slr_acceleration |-> slr_acceleration,
         network_mode |-> network_structure,
         network_parameter |-> network_parameter, schedule |-> <<>>,
         grid |-> [c \in Cells(width, height) |-> None],
         sea_level |-> 0, storm_surge |-> 0, community_resistance |-> 0,
         accommodation_incentive |-> 1, retreat_incentive |-> 1,
         p_adapt |-> 0, agent_list |-> <<>>, agents |-> <<>>,
         datacollector |-> [rows |-> 0, last |-> <<>>]],
        0, locations, capacities)

\* one row of the DataCollector's model reporters
Row(m) ==
    [MSL |-> m.sea_level, Surge |-> m.storm_surge,
     Population |-> m.num_agents, Accommodation |-> m.accommodation_incentive,
     Retreat |-> m.retreat_incentive, p_Adapt |-> m.p_adapt]

\* datacollector.collect(model): one more row; the model keeps the number of
\* rows and the latest row of the table
collect(m) ==
    [m EXCEPT !.datacollector = [rows |-> @.rows + 1, last |-> Row(m)]]

\* the two appends of set_init_connections
Connect(agents, i, j) ==
    [agents EXCEPT ![i].connections = Append(@, j),
                   ![j].connections = Append(agents[j].connections, i)]

\* variant of Linked: the draw is compared with <=
LinkedInclusive(m, agents, i, j, draws) ==
    IF m.network_mode = "aspatial"
    THEN /\ agents[j].unique_id > agents[i].unique_id
         /\ draws[<<i, j>>] <= m.network_parameter
    ELSE /\ Abs(agents[i].x - agents[j].x) < m.network_parameter
         /\ Abs(agents[i].y - agents[j].y) < m.network_parameter
         /\ agents[i].unique_id # agents[j].unique_id

\* the condition under which set_init_connections links i and j; draws is
\* the random.random() of each pair in aspatial mode
Linked(m, agents, i, j, draws) ==
    IF m.network_mode = "aspatial"
    THEN /\ agents[j].unique_id > agents[i].unique_id
         /\ draws[<<i, j>>] < m.network_parameter
    ELSE /\ Abs(agents[i].x - agents[j].x) < m.network_parameter
         /\ Abs(agents[i].y - agents[j].y) < m.network_parameter
         /\ agents[i].unique_id # agents[j].unique_id

\* the double loop of set_init_connections over schedule.agents, from the pair
\* (schedule[k], schedule[l]) on
RECURSIVE ConnectLoop(_, _, _, _, _)
ConnectLoop(m, agents, k, l, draws) ==
    IF k > Len(m.schedule) THEN agents
    ELSE IF l > Len(m.schedule) THEN ConnectLoop(m, agents, k + 1, 1, draws)
    ELSE LET i == m.schedule[k]
             j == m.schedule[l]
         IN  ConnectLoop(m,
                         IF Linked(m, agents, i, j, draws)
                         THEN Connect(agents, i, j) ELSE agents,
                         k, l + 1, draws)

\* AdaptationModel.set_init_connections
set_init_connections(m, draws) ==
    [m EXCEPT !.agents = ConnectLoop(m, m.agents, 1, 1, draws)]

\* variant of calculate_inundation: tick**2 taken as tick*2
calculate_inundation_doubling(m, t) ==
    [m EXCEPT !.sea_level = init_slr_increase * t + m.slr_acceleration * t * 2]

\* AdaptationModel.calculate_inundation; t is the global tick
calculate_inundation(m, t) ==
    [m EXCEPT !.sea_level = init_slr_increase * t + m.slr_acceleration * t * t]

\* -math.log(2*aep)/1.164 on the draws of AepDraws
SurgeHeight(aep) ==
    CASE aep = 100 -> 1383
      [] aep = 750 -> -348

\* AdaptationModel.calculate_storm_surge; aep is the draw of random.random()
calculate_storm_surge(m, aep) ==
    [m EXCEPT !.storm_surge = Max(0, SurgeHeight(aep))]

\* the fields of all agents, as a function of the agent
Field(m, name) == [a \in DOMAIN m.agents |-> m.agents[a][name]]

\* variant of community_adaptation: with nobody left the averages are 0 and
\* the community still adapts
community_adaptation_unconditional(m, x, y, z) ==
    LET total_damage == Sum(m.schedule, Field(m, "flood_damage"))
        total_inundation == Sum(m.schedule, Field(m, "inundation"))
        average_damage ==
            IF m.num_agents > 0
            THEN Min(Real(10), total_damage \div m.num_agents) ELSE 0
        average_inundation ==
            IF m.num_agents > 0
            THEN Max(0, Min(total_inundation \div m.num_agents, 500)) ELSE 0
        p_adapt == Probability(average_damage, average_inundation)
        m1 == [m EXCEPT !.p_adapt = p_adapt]
        m2 == IF m.community_resistance < 3
              THEN IF x < Mul(p_adapt, 600)
                   THEN [m1 EXCEPT !.community_resistance = @ + 1]
                   ELSE IF x < Mul(p_adapt, 300)
                   THEN [m1 EXCEPT !.accommodation_incentive = @ + 1]
                   ELSE IF x < p_adapt
                   THEN [m1 EXCEPT !.retreat_incentive = @ + 1]
                   ELSE m1
              ELSE IF x < Mul(p_adapt, 700)
                   THEN [m1 EXCEPT !.accommodation_incentive = @ + 1]
                   ELSE IF x < p_adapt
                   THEN [m1 EXCEPT !.retreat_incentive = @ + 1]
                   ELSE m1
        m3 == IF y < 100
              THEN [m2 EXCEPT !.accommodation_incentive = Max(1, @ - 1)]
              ELSE m2
        m4 == IF z < 100
              THEN [m3 EXCEPT !.retreat_incentive = Max(1, @ - 1)]
              ELSE m3
    IN  m4

\* variant of community_adaptation: below 3 the test against 0.3*p_adapt
\* comes first
community_adaptation_reordered(m, x, y, z) ==
    LET total_damage == Sum(m.schedule, Field(m, "flood_damage"))
        total_inundation == Sum(m.schedule, Field(m, "inundation"))
        average_damage == Min(Real(10), total_damage \div m.num_agents)
        average_inundation ==
            Max(0, Min(total_inundation \div m.num_agents, 500))
        p_adapt == Probability(average_damage, average_inundation)
        m1 == [m EXCEPT !.p_adapt = p_adapt]
        m2 == IF m.community_resistance < 3
              THEN IF x < Mul(p_adapt, 300)
                   THEN [m1 EXCEPT !.accommodation_incentive = @ + 1]
                   ELSE IF x < Mul(p_adapt, 600)
                   THEN [m1 EXCEPT !.community_resistance = @ + 1]
                   ELSE IF x < p_adapt
                   THEN [m1 EXCEPT !.retreat_incentive = @ + 1]
                   ELSE m1
              ELSE IF x < Mul(p_adapt, 700)
                   THEN [m1 EXCEPT !.accommodation_incentive = @ + 1]
                   ELSE IF x < p_adapt
                   THEN [m1 EXCEPT !.retreat_incentive = @ + 1]
                   ELSE m1
        m3 == IF y < 100
              THEN [m2 EXCEPT !.accommodation_incentive = Max(1, @ - 1)]
              ELSE m2
        m4 == IF z < 100
              THEN [m3 EXCEPT !.retreat_incentive = Max(1, @ - 1)]
              ELSE m3
    IN  IF m.num_agents > 0 THEN m4 ELSE m

\* variant of community_adaptation: the resistance branch is open up to 3
community_adaptation_uncapped(m, x, y, z) ==
    LET total_damage == Sum(m.schedule, Field(m, "flood_damage"))
        total_inundation == Sum(m.schedule, Field(m, "inundation"))
        average_damage == Min(Real(10), total_damage \div m.num_agents)
        average_inundation ==
            Max(0, Min(total_inundation \div m.num_agents, 500))
        p_adapt == Probability(average_damage, average_inundation)
        m1 == [m EXCEPT !.p_adapt = p_adapt]
        m2 == IF m.community_resistance <= 3
              THEN IF x < Mul(p_adapt, 600)
                   THEN [m1 EXCEPT !.community_resistance = @ + 1]
                   ELSE IF x < Mul(p_adapt, 300)
                   THEN [m1 EXCEPT !.accommodation_incentive = @ + 1]
                   ELSE IF x < p_adapt
                   THEN [m1 EXCEPT !.retreat_incentive = @ + 1]
                   ELSE m1
              ELSE IF x < Mul(p_adapt, 700)
                   THEN [m1 EXCEPT !.accommodation_incentive = @ + 1]
                   ELSE IF x < p_adapt
                   THEN [m1 EXCEPT !.retreat_incentive = @ + 1]
                   ELSE m1
        m3 == IF y < 100
              THEN [m2 EXCEPT !.accommodation_incentive = Max(1, @ - 1)]
              ELSE m2
        m4 == IF z < 100
              THEN [m3 EXCEPT !.retreat_incentive = Max(1, @ - 1)]
              ELSE m3
    IN  IF m.num_agents > 0 THEN m4 ELSE m

\* AdaptationModel.community_adaptation; x, y, z are its random.random() draws
community_adaptation(m, x, y, z) ==
    LET total_damage == Sum(m.schedule, Field(m, "flood_damage"))
        total_inundation == Sum(m.schedule, Field(m, "inundation"))
        average_damage == Min(Real(10), total_damage \div m.num_agents)
        average_inundation ==
            Max(0, Min(total_inundation \div m.num_agents, 500))
        p_adapt == Probability(average_damage, average_inundation)
        m1 == [m EXCEPT !.p_adapt = p_adapt]
        m2 == IF m.community_resistance < 3
              THEN IF x < Mul(p_adapt, 600)
                   THEN [m1 EXCEPT !.community_resistance = @ + 1]
                   ELSE IF x < Mul(p_adapt, 300)
                   THEN [m1 EXCEPT !.accommodation_incentive = @ + 1]
                   ELSE IF x < p_adapt
                   THEN [m1 EXCEPT !.retreat_incentive = @ + 1]
                   ELSE m1
              ELSE IF x < Mul(p_adapt, 700)
                   THEN [m1 EXCEPT !.accommodation_incentive = @ + 1]
                   ELSE IF x < p_adapt
                   THEN [m1 EXCEPT !.retreat_incentive = @ + 1]
                   ELSE m1
        m3 == IF y < 100
              THEN [m2 EXCEPT !.accommodation_incentive = Max(1, @ - 1)]
              ELSE m2
        m4 == IF z < 100
              THEN [m3 EXCEPT !.retreat_incentive = Max(1, @ - 1)]
              ELSE m3
    IN  IF m.num_agents > 0 THEN m4 ELSE m

\* variant of Reap: num_agents is not decremented
RECURSIVE ReapKeepsCount(_, _)
ReapKeepsCount(m, k) ==
    IF k > Len(m.agent_list) THEN m
    ELSE LET a == m.agent_list[k]
         IN  IF m.agents[a].retreated /\ In(a, m.schedule)
             THEN ReapKeepsCount(
                      [m EXCEPT !.schedule = Remove(@, a),
                                !.grid = [@ EXCEPT ![m.agents[a].pos] = None]],
                      k + 1)
             ELSE ReapKeepsCount(m, k + 1)

\* variant of Reap: the agent stays on the schedule
RECURSIVE ReapKeepsSchedule(_, _)
ReapKeepsSchedule(m, k) ==
    IF k > Len(m.agent_list) THEN m
    ELSE LET a == m.agent_list[k]
         IN  IF m.agents[a].retreated /\ m.grid[m.agents[a].pos] = a
             THEN ReapKeepsSchedule(
                      [m EXCEPT !.grid = [@ EXCEPT ![m.agents[a].pos] = None],
                                !.num_agents = @ - 1],
                      k + 1)
             ELSE ReapKeepsSchedule(m, k + 1)

\* the loop of AdaptationModel.step that removes the retreated agents, from
\* entry k of agent_list on
RECURSIVE Reap(_, _)
Reap(m, k) ==
    IF k > Len(m.agent_list) THEN m
    ELSE LET a == m.agent_list[k]
         IN  IF m.agents[a].retreated /\ In(a, m.schedule)
             THEN Reap([m EXCEPT !.schedule = Remove(@, a),
                                 !.grid = [@ EXCEPT ![m.agents[a].pos] = None],
                                 !.num_agents = @ - 1],
                       k + 1)
             ELSE Reap(m, k + 1)

(***************************************************************************)
(* Actions.  Model k is driven as slr_adaptation drives it: construction,  *)
(* set_init_connections and the first collect, then steps calls of         *)
(* AdaptationModel.step.  One call of step is the sequence BeginStep,      *)
(* HouseholdStep for every agent of the schedule, HouseholdAdvance for     *)
(* every agent of the schedule (SimultaneousActivation.step), EndStep.     *)
(* The random draws of a call are parameters of its action.                *)
(***************************************************************************)
\* variant of Samples: the locations are drawn with replacement
SamplesWithReplacement(cells, n) == [1..n -> 0..(cells - 1)]

\* random.sample(range(cells), n): n distinct locations in drawn order
Samples(cells, n) ==
    {s \in [1..n -> 0..(cells - 1)] :
        \A a, b \in 1..n : a # b => s[a] # s[b]}

\* no call of a model is in progress in the process
Quiet == \A k \in ModelIds : models[k].phase \in {"none", "idle"}

\* variant of tick_after_init: the assignment binds a local name
tick_after_local_init(old, init_time) == old

\* `global tick; tick = init_time` of AdaptationModel.__init__
tick_after_init(old, init_time) == init_time

\* variant of valid_network: the mode is not validated
any_network(network_structure) == TRUE

\* the network modes slr_adaptation accepts; with any other it prints an
\* error and calls sys.exit(1)
valid_network(network_structure) ==
    network_structure \in {"spatial", "aspatial"}

\* run k after the start of slr_adaptation under configuration c
Run(pc, c) ==
    [pc |-> pc, i |-> 0, steps |-> c.steps, init_time |-> c.init_time,
     network_structure |-> c.network_structure]

\* the start of slr_adaptation: the validation of the network mode, then
\* model = AdaptationModel(width, height, n, slr_acceleration,
\*                         network_structure, network_parameter, init_time);
\* random.sample raises ValueError when n exceeds the number of cells, after
\* tick has been assigned
Construct(k, c, locations, capacities) ==
    /\ Quiet
    /\ runs[k].pc = "start"
    /\ IF ~valid_network(c.network_structure)
       THEN /\ runs' = [runs EXCEPT ![k] = Run("exited", c)]
            /\ UNCHANGED <<tick, models, calls>>
       ELSE /\ tick' = tick_after_init(tick, c.init_time)
            /\ IF c.n > c.width * c.height
               THEN /\ runs' = [runs EXCEPT ![k] = Run("raised", c)]
                    /\ UNCHANGED <<models, calls>>
               ELSE /\ locations \in Samples(c.width * c.height, c.n)
                    /\ capacities \in [1..c.n -> CapacityDraws]
                    /\ models' = [models EXCEPT ![k] =
                          AdaptationModel(c.width, c.height, c.n,
                                          c.slr_acceleration,
                                          c.network_structure,
                                          c.network_parameter,
                                          locations, capacities)]
                    /\ runs' = [runs EXCEPT ![k] = Run("constructed", c)]
                    /\ calls' = [calls EXCEPT ![k] =
                                    [a \in 0..(c.n - 1) |->
                                        [step |-> 0, advance |-> 0]]]

\* the draws of Construct under configuration c: the locations of
\* random.sample (none when the run exits or random.sample raises) and the
\* agents' initial capacities
ConstructDraws(c) ==
    IF ~valid_network(c.network_structure) \/ c.n > c.width * c.height
    THEN {<<<<>>, <<>>>>}
    ELSE Samples(c.width * c.height, c.n) \X [1..c.n -> CapacityDraws]

\* the pairs of agents set_init_connections draws for
DrawnPairs(m) ==
    IF m.network_mode = "aspatial"
    THEN {p \in (DOMAIN m.agents) \X (DOMAIN m.agents) : p[2] > p[1]}
    ELSE {}

\* model.set_init_connections(); model.datacollector.collect(model)
SetInitConnections(k, draws) ==
    /\ Quiet
    /\ runs[k].pc = "constructed"
    /\ draws \in [DrawnPairs(models[k]) -> EdgeDraws]
    /\ models' = [models EXCEPT ![k] =
                     collect(set_init_connections(models[k], draws))]
    /\ runs' = [runs EXCEPT ![k].pc = "loop"]
    /\ UNCHANGED <<tick, calls>>

\* variant of BeginStep: the loop ends when nobody is left
BeginStepWhilePopulated(k, aep, x, y, z) ==
    /\ Quiet
    /\ runs[k].pc = "loop"
    /\ runs[k].i < runs[k].steps
    /\ models[k].num_agents > 0
    /\ LET m1 == calculate_inundation(models[k], tick)
           m2 == calculate_storm_surge(m1, aep)
           m3 == community_adaptation(m2, x, y, z)
       IN  models' = [models EXCEPT ![k] =
               [m3 EXCEPT !.phase = IF m3.schedule = <<>>
                                    THEN "reaping" ELSE "observing",
                          !.queue = m3.schedule]]
    /\ UNCHANGED <<tick, runs, calls>>

\* AdaptationModel.step up to schedule.step(): calculate_inundation,
\* calculate_storm_surge, community_adaptation
BeginStep(k, aep, x, y, z) ==
    /\ Quiet
    /\ runs[k].pc = "loop"
    /\ runs[k].i < runs[k].steps
    /\ LET m1 == calculate_inundation(models[k], tick)
           m2 == calculate_storm_surge(m1, aep)
           m3 == community_adaptation(m2, x, y, z)
       IN  models' = [models EXCEPT ![k] =
               [m3 EXCEPT !.phase = IF m3.schedule = <<>>
                                    THEN "reaping" ELSE "observing",
                          !.queue = m3.schedule]]
    /\ UNCHANGED <<tick, runs, calls>>

\* SimultaneousActivation.step after an agent.step(): the agents still to
\* step, then all agents again for advance
after_step(m) ==
    IF Tail(m.queue) = <<>>
    THEN [m EXCEPT !.queue = m.schedule, !.phase = "committing"]
    ELSE [m EXCEPT !.queue = Tail(m.queue)]

\* SimultaneousActivation.step after an agent.advance()
after_advance(m) ==
    IF Tail(m.queue) = <<>>
    THEN [m EXCEPT !.queue = <<>>, !.phase = "reaping"]
    ELSE [m EXCEPT !.queue = Tail(m.queue)]

\* schedule.step(), first loop: agent.step() of the next agent
HouseholdStep(k, draw) ==
    /\ models[k].phase = "observing"
    /\ LET m == models[k]
           a == Head(m.queue)
       IN  /\ models' = [models EXCEPT ![k] =
                  after_step([m EXCEPT !.agents[a] =
                                           step(m, m.agents[a], draw)])]
           /\ calls' = [calls EXCEPT ![k][a].step = @ + 1]
    /\ UNCHANGED <<tick, runs>>

\* schedule.step(), second loop: agent.advance() of the next agent
HouseholdAdvance(k, x) ==
    /\ models[k].phase = "committing"
    /\ LET m == models[k]
           a == Head(m.queue)
       IN  /\ models' = [models EXCEPT ![k] =
                  after_advance([m EXCEPT !.agents[a] =
                                              advance(m, m.agents[a], x)])]
           /\ calls' = [calls EXCEPT ![k][a].advance = @ + 1]
    /\ UNCHANGED <<tick, runs>>

\* AdaptationModel.step after schedule.step(): the removal of the retreated
\* agents, datacollector.collect, tick += 1
EndStep(k) ==
    /\ models[k].phase = "reaping"
    /\ models' = [models EXCEPT ![k] =
                     [collect(Reap(models[k], 1)) EXCEPT !.phase = "idle"]]
    /\ tick' = tick + 1
    /\ runs' = [runs EXCEPT ![k].i = @ + 1]
    /\ UNCHANGED calls

(***************************************************************************)
(* Specification Spec: one run of one model in the process                 *)
(***************************************************************************)
Init ==
    /\ tick = 0
    /\ models = [k \in ModelIds |-> NoModel]
    /\ runs = [k \in ModelIds |->
                  [pc |-> "start", i |-> 0, steps |-> 0, init_time |-> 0,
                   network_structure |-> ""]]
    /\ calls = [k \in ModelIds |-> <<>>]
    /\ trace = <<>>

Next ==
    \/ /\ runs[1].pc = "start"
       /\ \E c \in RunConfigs : \E d \in ConstructDraws(c) :
              Construct(1, c, d[1], d[2]) /\ UNCHANGED trace
    \/ /\ runs[1].pc = "constructed"
       /\ \E draws \in [DrawnPairs(models[1]) -> EdgeDraws] :
              SetInitConnections(1, draws) /\ UNCHANGED trace
    \/ \E aep \in AepDraws, x \in AdaptDraws, y, z \in DecrementDraws :
          BeginStep(1, aep, x, y, z) /\ UNCHANGED trace
    \/ \E draw \in PerturbationDraws :
          HouseholdStep(1, draw) /\ UNCHANGED trace
    \/ \E x \in DecisionDraws :
          HouseholdAdvance(1, x) /\ UNCHANGED trace
    \/ EndStep(1) /\ UNCHANGED trace

Spec == Init /\ [][Next]_vars

(***************************************************************************)
(* Specification SpecNetwork: construction and set_init_connections alone, *)
(* on a 3 x 2 grid with up to MaxAgents + 1 households and every kind of   *)
(* network                                                                 *)
(***************************************************************************)
AllNetworks ==
    {<<"aspatial", 0>>, <<"aspatial", 500>>, <<"aspatial", Scale>>,
     <<"spatial", 1>>, <<"spatial", 2>>}

NetworkConfigs ==
    Configs({3}, {2}, 0..(MaxAgents + 1), {<<0, 0>>}, AllNetworks, 0)

NextNetwork ==
    \/ /\ runs[1].pc = "start"
       /\ \E c \in NetworkConfigs : \E d \in ConstructDraws(c) :
              Construct(1, c, d[1], d[2]) /\ UNCHANGED trace
    \/ /\ runs[1].pc = "constructed"
       /\ \E draws \in [DrawnPairs(models[1]) -> EdgeDraws] :
              SetInitConnections(1, draws) /\ UNCHANGED trace

SpecNetwork == Init /\ [][NextNetwork]_vars

(***************************************************************************)
(* Specification SpecTwo: two models in one process, each driven as in     *)
(* Spec for TwoSteps steps; a call on one model starts only when no call   *)
(* on the other is in progress                                             *)
(***************************************************************************)
TwoSteps == 1

TwoConfigs ==
    Configs(Widths, Heights, {1}, Clocks, {<<"aspatial", 500>>}, TwoSteps)

NextTwo ==
    \E k \in ModelIds :
        \/ /\ runs[k].pc = "start"
           /\ \E c \in TwoConfigs : \E d \in ConstructDraws(c) :
                  Construct(k, c, d[1], d[2]) /\ UNCHANGED trace
        \/ /\ runs[k].pc = "constructed"
           /\ \E draws \in [DrawnPairs(models[k]) -> EdgeDraws] :
                  SetInitConnections(k, draws) /\ UNCHANGED trace
        \/ \E aep \in AepDraws, x \in AdaptDraws, y, z \in DecrementDraws :
              BeginStep(k, aep, x, y, z) /\ UNCHANGED trace
        \/ \E draw \in PerturbationDraws :
              HouseholdStep(k, draw) /\ UNCHANGED trace
        \/ \E x \in DecisionDraws :
              HouseholdAdvance(k, x) /\ UNCHANGED trace
        \/ EndStep(k) /\ UNCHANGED trace

SpecTwo == Init /\ [][NextTwo]_vars

(***************************************************************************)
(* Specification SpecReplay: two runs one after the other in one process,  *)
(* as the loop of Simulation.py makes them.  The first run logs every call *)
(* with the draws it received and the state it left; the second run gets   *)
(* the same configuration and, call by call, the same draws.               *)
(***************************************************************************)
ReplaySteps == 2

ReplayConfigs ==
    Configs(Widths, Heights, {1}, Clocks, {<<"aspatial", 500>>}, ReplaySteps)

\* the first run logs the call it makes
Logged(draws) ==
    trace' = Append(trace, [draws |-> draws, model |-> models'[1],
                            tick |-> tick'])

\* the second run has made the call at the head of the log
Replayed == trace' = Tail(trace)

\* slr_adaptation of run k has returned
Finished(k) ==
    /\ runs[k].pc = "loop"
    /\ runs[k].i = runs[k].steps
    /\ models[k].phase = "idle"

\* the draws the second run receives in its next call
Drawn == Head(trace).draws

\* the second run starts when the first has returned, and ends with the log
Replaying == Finished(1) /\ trace # <<>>

NextReplay ==
    \/ /\ runs[1].pc = "start"
       /\ \E c \in ReplayConfigs : \E d \in ConstructDraws(c) :
              Construct(1, c, d[1], d[2]) /\ Logged(<<c, d[1], d[2]>>)
    \/ /\ runs[1].pc = "constructed"
       /\ \E draws \in [DrawnPairs(models[1]) -> EdgeDraws] :
              SetInitConnections(1, draws) /\ Logged(draws)
    \/ \E aep \in AepDraws, x \in AdaptDraws, y, z \in DecrementDraws :
          BeginStep(1, aep, x, y, z) /\ Logged(<<aep, x, y, z>>)
    \/ \E draw \in PerturbationDraws :
          HouseholdStep(1, draw) /\ Logged(draw)
    \/ \E x \in DecisionDraws :
          HouseholdAdvance(1, x) /\ Logged(x)
    \/ EndStep(1) /\ Logged(<<>>)
    \/ /\ Replaying
       /\ runs[2].pc = "start"
       /\ Construct(2, Drawn[1], Drawn[2], Drawn[3])
       /\ Replayed
    \/ /\ Replaying
       /\ SetInitConnections(2, Drawn)
       /\ Replayed
    \/ /\ Replaying
       /\ runs[2].pc = "loop"
       /\ models[2].phase = "idle"
       /\ BeginStep(2, Drawn[1], Drawn[2], Drawn[3], Drawn[4])
       /\ Replayed
    \/ /\ Replaying
       /\ HouseholdStep(2, Drawn)
       /\ Replayed
    \/ /\ Replaying
       /\ HouseholdAdvance(2, Drawn)
       /\ Replayed
    \/ /\ Replaying
       /\ EndStep(2)
       /\ Replayed

SpecReplay == Init /\ [][NextReplay]_vars

(***************************************************************************)
(* Properties                                                              *)
(***************************************************************************)
\* the model of the run of Spec
M == models[1]

\* the model exists
Constructed(m) == m.phase # "none"

\* agent a is neither on the schedule nor on the grid of m
Removed(m, a) ==
    /\ ~In(a, m.schedule)
    /\ \A c \in DOMAIN m.grid : m.grid[c] # a

\* C1: from construction on, in every state, num_agents equals the number of
\* agents in schedule.agents, and no step of the kernel increases num_agents.
C1_PopulationCount ==
    [][/\ Constructed(models'[1]) =>
              models'[1].num_agents = Len(models'[1].schedule)
       /\ Constructed(M) => models'[1].num_agents <= M.num_agents]_vars

\* a step has removed a retreated agent and the counter has followed
C1_Witness ==
    /\ M.phase = "idle"
    /\ runs[1].i >= 1
    /\ M.num_agents < Len(M.agent_list)
    /\ M.num_agents = Len(M.schedule)

\* C2: a retreated household stays retreated; at the end of the tick in which
\* it retreated it is off the schedule and off the grid, and it is in
\* agent_list; once removed it stays removed and neither step() nor advance()
\* runs on it again.
C2_RetreatIsFinal ==
    [][\A a \in DOMAIN M.agents :
          /\ M.agents[a].retreated => models'[1].agents[a].retreated
          /\ (models'[1].phase = "idle" /\ models'[1].agents[a].retreated)
                 => Removed(models'[1], a) /\ In(a, models'[1].agent_list)
          /\ Removed(M, a)
                 => Removed(models'[1], a) /\ calls'[1][a] = calls[1][a]]_vars

\* a household retreated, was removed, and a later tick ran without it
C2_Witness ==
    \E a \in DOMAIN M.agents :
        /\ M.agents[a].retreated
        /\ Removed(M, a)
        /\ In(a, M.agent_list)
        /\ M.phase = "idle"
        /\ calls[1][a].step < runs[1].i

\* the values resistance and accommodation may take
Ladder == {0, Real(1), 1500, Real(2)}

\* C3: in every state the resistance and the accommodation of every household
\* are one of 0, 1, 1.5, 2, and no step decreases either.
C3_Ladder ==
    [][/\ \A a \in DOMAIN models'[1].agents :
             /\ models'[1].agents[a].resistance \in Ladder
             /\ models'[1].agents[a].accommodation \in Ladder
       /\ \A a \in DOMAIN M.agents :
             /\ models'[1].agents[a].resistance >= M.agents[a].resistance
             /\ models'[1].agents[a].accommodation
                    >= M.agents[a].accommodation]_vars

\* a household has climbed the whole ladder of resistance and then taken the
\* first rung of accommodation
C3_Witness ==
    \E a \in DOMAIN M.agents :
        /\ M.agents[a].resistance = Real(2)
        /\ M.agents[a].accommodation = Real(1)

\* C4: in every state community_resistance is at most 3 and both incentives
\* are at least 1.
C4_CommunityBounds ==
    Constructed(M) =>
        /\ M.community_resistance <= 3
        /\ M.accommodation_incentive >= 1
        /\ M.retreat_incentive >= 1

\* community_adaptation has run with community_resistance already 3
C4_Witness ==
    /\ M.community_resistance = 3
    /\ M.accommodation_incentive = 2
    /\ M.retreat_incentive = 1

\* model m with every household but a as it was constructed
Scrub(m, a) ==
    [m EXCEPT !.agents =
        [b \in DOMAIN m.agents |->
            IF b = a THEN m.agents[b]
            ELSE Household(b, m.width, m.agents[b].x, m.agents[b].y, 0)]]

\* C5: when advance() has run on a household in a tick, step() has run in
\* that tick on every household of the schedule; and an advance() changes
\* only its own household, to what make_decision gives from that household's
\* own state and the model-level fields, whatever the state of the others.
C5_SimultaneousActivation ==
    [][/\ \A a, b \in DOMAIN models'[1].agents :
             (In(a, models'[1].schedule) /\ In(b, models'[1].schedule))
                 => calls'[1][a].advance <= calls'[1][b].step
       /\ M.phase = "committing" =>
             LET a == Head(M.queue)
             IN  /\ \E x \in DecisionDraws :
                        models'[1].agents[a]
                            = make_decision(Scrub(M, a), M.agents[a], x)
                 /\ \A b \in DOMAIN M.agents \ {a} :
                        models'[1].agents[b] = M.agents[b]]_vars

\* the second household of the schedule is about to commit after the first,
\* its neighbour, has retreated in the same tick
C5_Witness ==
    /\ M.phase = "committing"
    /\ Len(M.schedule) = 2
    /\ M.queue = <<M.schedule[2]>>
    /\ M.agents[M.schedule[1]].retreated
    /\ In(M.schedule[1], M.agents[M.schedule[2]].connections)

\* C6: after a commit with a nonzero sum of weights, p_resist, p_accommodate
\* and p_retreat sum to p_action (to within the rounding of the three
\* quotients and products, 9 units).
C6_NormalizedSum ==
    \A a \in DOMAIN M.agents :
        LET h == M.agents[a]
        IN  (calls[1][a].advance >= 1
             /\ h.p_resist + h.p_accommodate + h.p_retreat # 0)
                => Abs(h.p_resist + h.p_accommodate + h.p_retreat
                       - h.p_action) <= 9

\* C7: once set_init_connections has run, no step of the kernel changes the
\* connections of any household.
C7_StaticNetwork ==
    [][runs[1].pc = "loop" =>
          \A a \in DOMAIN M.agents :
              models'[1].agents[a].connections
                  = M.agents[a].connections]_vars

\* a household has observed after its neighbour retreated and was removed,
\* and still lists it
C7_Witness ==
    \E a, b \in DOMAIN M.agents :
        /\ In(b, M.agents[a].connections)
        /\ M.agents[b].retreated
        /\ Removed(M, b)
        /\ In(a, M.schedule)
        /\ M.agents[a].attachment = 0
        /\ calls[1][a].step > calls[1][b].step

\* C8: after set_init_connections in aspatial mode, density 0 leaves every
\* connections list empty, and density 1 puts every other household exactly
\* once in every household's list, whatever the draws.
C8_DensityExtremes ==
    (runs[1].pc = "loop" /\ M.network_mode = "aspatial") =>
        /\ M.network_parameter = 0 =>
               \A a \in DOMAIN M.agents : M.agents[a].connections = <<>>
        /\ M.network_parameter = Scale =>
               \A a \in DOMAIN M.agents :
                   /\ Len(M.agents[a].connections) = M.num_agents - 1
                   /\ \A b \in DOMAIN M.agents \ {a} :
                          In(b, M.agents[a].connections)

\* three households, fully connected at density 1
C8_Witness ==
    /\ runs[1].pc = "loop"
    /\ M.network_mode = "aspatial"
    /\ M.network_parameter = Scale
    /\ M.num_agents = 3
    /\ \A a \in DOMAIN M.agents : Len(M.agents[a].connections) = 2

\* C9: a second run with the configuration of the first, given call by call
\* the draws the first received, leaves after every call the model, its
\* households and the clock as the first run left them after that call.
C9_ReplayIsIdentical ==
    [][models'[2] # models[2] =>
          /\ trace # <<>>
          /\ models'[2] = Head(trace).model
          /\ tick' = Head(trace).tick]_vars

\* the second run has replayed a whole run in which the household acted in
\* the first tick and retreated in the second
C9_Witness ==
    /\ Finished(2)
    /\ trace = <<>>
    /\ runs[2].i = ReplaySteps
    /\ models[2] = models[1]
    /\ \E a \in DOMAIN models[2].agents :
           /\ models[2].agents[a].retreated
           /\ calls[2][a].advance = ReplaySteps

\* C10: a call on one model leaves the clock of every other model that still
\* has steps to make as it was.
C10_NoSharedState ==
    [][\A j \in ModelIds :
          (/\ runs[j].pc \in {"constructed", "loop"}
           /\ runs[j].i < runs[j].steps
           /\ runs'[j] = runs[j]
           /\ models'[j] = models[j])
              => tick' = tick]_vars

\* C11: once the network is built, a household with no connections has
\* attachment 0 in every state.
C11_IsolatedAttachment ==
    runs[1].pc = "loop" =>
        \A a \in DOMAIN M.agents :
            M.agents[a].connections = <<>> => M.agents[a].attachment = 0

\* C12: the p_action a commit leaves is 0.09*d + 1.8*i - 0.18*d*i + 0.1 with
\* d = min(flood_damage, 10) and i = inundation clamped to [0, 1] (to within
\* the rounding of the three products, 3 units); it is exactly 0.1 when
\* flood_damage is 0 and inundation is at most 0, and it is never below 0.1.
C12_ActionProbability ==
    [][\A a \in DOMAIN M.agents :
          calls'[1][a].advance > calls[1][a].advance =>
              LET h == models'[1].agents[a]
                  d == Min(h.flood_damage, 10 * Scale)
                  i == Min(Scale, Max(h.inundation, 0))
                  curve == 90 * d + 1800 * i - ((180 * d * i) \div Scale)
              IN  /\ Abs(Scale * (h.p_action - 100) - curve) <= 3 * Scale
                  /\ (h.flood_damage = 0 /\ h.inundation <= 0)
                         => h.p_action = 100
                  /\ h.p_action >= 100]_vars

\* a household has committed with damage and with inundation between 0 and 1
C12_Witness ==
    /\ M.phase = "reaping"
    /\ \E a \in DOMAIN M.agents :
           /\ In(a, M.schedule)
           /\ M.agents[a].flood_damage > 0
           /\ M.agents[a].inundation > 0
           /\ M.agents[a].inundation < Scale
           /\ M.agents[a].p_action > 100

\* C13: a run asked for steps ticks never makes more; as long as it has made
\* fewer, its next call can be made, whatever the state of the model and
\* with nobody left; after steps ticks nothing more runs.  After i ticks the
\* collector holds i + 1 rows and the clock stands at init_time + i.
C13_ExactlyNSteps ==
    /\ runs[1].i <= runs[1].steps
    /\ runs[1].pc = "loop" =>
           /\ M.phase = "idle" =>
                  /\ M.datacollector.rows = runs[1].i + 1
                  /\ tick = runs[1].init_time + runs[1].i
           /\ runs[1].i < runs[1].steps => ENABLED Next
           /\ Finished(1) => ~ENABLED Next

\* the run has made all its steps, the last of them with nobody left
C13_Witness ==
    /\ Finished(1)
    /\ runs[1].i = MaxSteps
    /\ M.num_agents = 0
    /\ M.agent_list # <<>>
    /\ \A a \in DOMAIN M.agents : calls[1][a].step < MaxSteps

\* C14: a run whose network mode is neither 'spatial' nor 'aspatial' ends in
\* the error exit before anything is constructed: there is no model, hence
\* no network, the clock is untouched, no step is made and nothing follows.
C14_InvalidNetworkFailsFast ==
    (/\ runs[1].pc # "start"
     /\ runs[1].network_structure \notin {"spatial", "aspatial"})
        => /\ runs[1].pc = "exited"
           /\ models[1] = NoModel
           /\ runs[1].i = 0
           /\ tick = 0
           /\ ~ENABLED Next

\* the run asked for a ring network and for steps, and has exited
C14_Witness ==
    /\ runs[1].pc = "exited"
    /\ runs[1].network_structure = "ring"
    /\ runs[1].steps > 0
    /\ runs[1].init_time > 0

\* household a with p_resist, p_accommodate and p_retreat at the values of
\* Household.__init__
Rebased(a) ==
    [a EXCEPT !.p_resist = 600, !.p_accommodate = 300, !.p_retreat = 100]

\* C15: the weights a household brings to the draw of a commit are those the
\* forcing rules give from the bases 0.6, 0.3 and 0.1, whatever its weights
\* were after earlier commits.
C15_FixedBases ==
    M.phase = "committing" =>
        LET a == M.agents[Head(M.queue)]
        IN  Weights(M, a) = Weights(M, Rebased(a))

\* the rung that follows level on the ladder 0 -> 1 -> 1.5 -> 2
NextRung(level) ==
    CASE level = 0 -> 1 * Scale
      [] level = 1 * Scale -> 1500
      [] level = 1500 -> 2 * Scale
      [] OTHER -> level

\* C16: a commit changes at most one of resistance, accommodation and
\* retreated of its household; a change of resistance or accommodation is a
\* move to the next rung of the ladder; and a household whose resistance
\* (accommodation) is 2 leaves the commit with p_resist (p_accommodate) 0, so
\* no draw falls in that branch.
C16_OneActionPerCommit ==
    [][\A a \in DOMAIN M.agents :
          calls'[1][a].advance > calls[1][a].advance =>
              LET old == M.agents[a]
                  new == models'[1].agents[a]
                  changed == {f \in {"resistance", "accommodation",
                                     "retreated"} : new[f] # old[f]}
              IN  /\ Cardinality(changed) <= 1
                  /\ new.resistance # old.resistance
                         => new.resistance = NextRung(old.resistance)
                  /\ new.accommodation # old.accommodation
                         => new.accommodation = NextRung(old.accommodation)
                  /\ old.resistance = 2 * Scale => new.p_resist = 0
                  /\ old.accommodation = 2 * Scale
                         => new.p_accommodate = 0]_vars

\* a household has climbed to the cap of resistance in three commits and
\* has committed again
C16_Witness ==
    \E a \in DOMAIN M.agents :
        /\ M.agents[a].resistance = 2 * Scale
        /\ M.agents[a].p_resist = 0
        /\ calls[1][a].advance >= 4

\* C17: a commit of a household whose three weights are zero leaves its
\* resistance, accommodation and retreated as they were and its weights
\* zero; in every other commit the sums by which the three weights are
\* divided in turn are all nonzero.
C17_ZeroSumGuard ==
    [][M.phase = "committing" =>
          LET old == M.agents[Head(M.queue)]
              new == models'[1].agents[Head(M.queue)]
              w == Weights(M, old)
              first == w[1] + w[2] + w[3]
              second == new.p_resist + w[2] + w[3]
              third == new.p_resist + new.p_accommodate + w[3]
          IN  IF first = 0
              THEN /\ new.resistance = old.resistance
                   /\ new.accommodation = old.accommodation
                   /\ new.retreated = old.retreated
                   /\ new.p_resist = 0
                   /\ new.p_accommodate = 0
                   /\ new.p_retreat = 0
              ELSE second # 0 /\ third # 0]_vars

\* a household has committed with its three weights zero and has stayed
C17_Witness ==
    /\ M.phase = "reaping"
    /\ \E a \in DOMAIN M.agents :
           /\ In(a, M.schedule)
           /\ M.agents[a].p_action >= 100
           /\ M.agents[a].p_resist = 0
           /\ M.agents[a].p_accommodate = 0
           /\ M.agents[a].p_retreat = 0
           /\ ~M.agents[a].retreated

\* the number of times b stands in list
Times(list, b) == Cardinality({n \in 1..Len(list) : list[n] = b})

\* C18: once the network is built, in either mode, b is in a's connections
\* exactly when a is in b's, no household is in its own connections, and no
\* household is more than once in another's.
C18_NetworkIsASet ==
    runs[1].pc = "loop" =>
        \A a, b \in DOMAIN M.agents :
            /\ In(b, M.agents[a].connections)
                   <=> In(a, M.agents[b].connections)
            /\ ~In(a, M.agents[a].connections)
            /\ Times(M.agents[a].connections, b) <= 1

\* the cells of the grid of m that hold a household
Occupied(m) == {c \in DOMAIN m.grid : m.grid[c] # None}

\* C19: from construction on, every household has its (x, y) inside the
\* grid, no two households have the same (x, y), every household of the
\* schedule stands on the cell (x, y) of the grid, the grid holds as many
\* households as num_agents counts (n at construction), and no step changes
\* the (x, y) of a household.
C19_OneHouseholdPerCell ==
    [][Constructed(models'[1]) =>
          LET m == models'[1]
          IN  /\ \A a \in DOMAIN m.agents :
                     /\ m.agents[a].x \in 0..(m.width - 1)
                     /\ m.agents[a].y \in 0..(m.height - 1)
              /\ \A a, b \in DOMAIN m.agents :
                     a # b => <<m.agents[a].x, m.agents[a].y>>
                                  # <<m.agents[b].x, m.agents[b].y>>
              /\ \A a \in DOMAIN m.agents :
                     In(a, m.schedule)
                         => m.grid[<<m.agents[a].x, m.agents[a].y>>] = a
              /\ Cardinality(Occupied(m)) = m.num_agents
              /\ Cardinality(DOMAIN m.agents) = Len(m.agent_list)
              /\ Constructed(M) =>
                     \A a \in DOMAIN M.agents :
                         /\ m.agents[a].x = M.agents[a].x
                         /\ m.agents[a].y = M.agents[a].y]_vars

\* two households were placed, one has left and the other stands on its cell
C19_Witness ==
    /\ M.phase = "idle"
    /\ Len(M.agent_list) = 2
    /\ Cardinality(Occupied(M)) = 1
    /\ \E a \in DOMAIN M.agents :
           /\ In(a, M.schedule)
           /\ M.grid[<<M.agents[a].x, M.agents[a].y>>] = a

\* C20: a step of a model whose schedule is empty changes nothing of the
\* model but sea_level, storm_surge and the collector's record (and the
\* clock): community_resistance, the two incentives, p_adapt, num_agents,
\* the households, the grid and the lists stay as they were.
C20_EmptyRosterStep ==
    [][(runs[1].pc = "loop" /\ M.schedule = <<>>) =>
          /\ [models'[1] EXCEPT !.sea_level = M.sea_level,
                                !.storm_surge = M.storm_surge,
                                !.datacollector = M.datacollector,
                                !.phase = M.phase] = M
          /\ tick' \in {tick, tick + 1}]_vars

\* the community had raised the retreat incentive, the household left, and
\* a later step ran with the schedule empty
C20_Witness ==
    /\ M.phase = "idle"
    /\ M.schedule = <<>>
    /\ M.retreat_incentive = 2
    /\ M.p_adapt > 0
    /\ M.sea_level > 0
    /\ \E a \in DOMAIN M.agents : calls[1][a].step + 1 < runs[1].i

\* 0.007*t + slr_acceleration*t^2, in thousandths
SeaLevelAt(m, t) == 7 * t + m.slr_acceleration * (t * t)

\* C21: from construction on the clock stands at init_time plus the number
\* of steps made; during step k the sea level is 0.007*(init_time + k)
\* + slr_acceleration*(init_time + k)^2, and it keeps that value until the
\* next step; with slr_acceleration 0 it is 0.007 times the tick of the step.
C21_ClockAndSeaLevel ==
    runs[1].pc \in {"constructed", "loop"} =>
        LET t0 == runs[1].init_time
            k == runs[1].i
        IN  /\ tick = t0 + k
            /\ M.phase # "idle" => M.sea_level = SeaLevelAt(M, t0 + k)
            /\ (M.phase = "idle" /\ k >= 1)
                   => M.sea_level = SeaLevelAt(M, t0 + k - 1)
            /\ (M.phase # "idle" /\ M.slr_acceleration = 0)
                   => M.sea_level = 7 * tick

\* the second step of a model constructed at year 10 with acceleration is
\* under way
C21_Witness ==
    /\ M.phase = "committing"
    /\ runs[1].init_time = 10
    /\ runs[1].i = 1
    /\ tick = 11
    /\ M.slr_acceleration > 0
    /\ M.sea_level = 7 * 11 + M.slr_acceleration * 121

\* C22: flood_damage is never negative; an observe phase in a year without
\* storm surge leaves it at 0.9 times what it was, and in a year with storm
\* surge at max(0, storm_surge + inundation) * (1 - 0.05*accommodation),
\* with the inundation of that year and whatever it was before (each to
\* within the rounding of one product, 1 unit).
C22_FloodDamage ==
    [][\A a \in DOMAIN models'[1].agents :
          LET new == models'[1].agents[a]
          IN  /\ new.flood_damage >= 0
              /\ (Constructed(M) /\ calls'[1][a].step > calls[1][a].step) =>
                     LET old == M.agents[a]
                         height == Max(0, M.storm_surge + new.inundation)
                         factor == Scale - (50 * new.accommodation) \div Scale
                     IN  IF M.storm_surge > 0
                         THEN Abs(Scale * new.flood_damage - height * factor)
                                  < Scale
                         ELSE Abs(10 * new.flood_damage - 9 * old.flood_damage)
                                  < 10]_vars

\* a household that has accommodated and remembers damage has observed in a
\* year with storm surge and stands in water again
C22_Witness ==
    /\ M.phase = "committing"
    /\ M.storm_surge > 0
    /\ \E a \in DOMAIN M.agents :
           /\ In(a, M.schedule)
           /\ M.agents[a].accommodation >= Scale
           /\ M.agents[a].flood_damage > 0
           /\ calls[1][a].step >= 3

\* C23: in every state in which community_resistance is below 3,
\* accommodation_incentive is 1, whatever the draws were.
C23_NoAccommodationIncentiveBelowCap ==
    (Constructed(M) /\ M.community_resistance < 3)
        => M.accommodation_incentive = 1

\* the community has adapted with draws below 0.3*p_adapt and has raised its
\* resistance twice and the retreat incentive once, never the accommodation
\* incentive
C23_Witness ==
    /\ M.community_resistance = 2
    /\ M.retreat_incentive = 2
    /\ M.accommodation_incentive = 1
    /\ M.p_adapt >= 100
    /\ runs[1].i >= 2

=============================================================================
